---------------------------- MODULE Spec2Model ----------------------------
(***************************************************************************)
(* The two oTree trading apps of the repository, mini_pilot_trading (two   *)
(* assets A, B) and multi_asset_trading (four assets A, B, C, D): the      *)
(* session price-path generator, the round-1 initialisation and the        *)
(* per-round trade execution with its carry-forward.                       *)
(*                                                                         *)
(* Units.  Money (cash, prices, wealth) is counted in cents: every price   *)
(* is stored rounded to 2 decimals and every Currency value is quantised   *)
(* to 2 decimals by cu().  Returns are counted in basis points (1e-4).     *)
(* A uniform draw rng.random() is counted in percent (0..99), a Gaussian   *)
(* draw by its standard score z in hundredths of a sigma.                  *)
(***************************************************************************)
EXTENDS Integers, Sequences, FiniteSets, TLC

\* ------------------------------------------------------------------
\* Bounds of the model
\* ------------------------------------------------------------------
\* C.NUM_ROUNDS of mini_pilot_trading (20 in the source), scaled down.
NumRoundsMini == 3

\* C.NUM_ROUNDS of multi_asset_trading (25 in the source), scaled down.
NumRoundsMulti == 4

\* The large quantity a participant types into a buy or sell field.
BigQty == 12

\* The small quantity a participant types into a buy field.
SmallQty == 4

Apps == {"mini_pilot_trading", "multi_asset_trading"}

\* ------------------------------------------------------------------
\* Constants of class C (both apps), in the units above
\* ------------------------------------------------------------------
INITIAL_CASH == 10000

START_PRICE == 1000

SAFE_MU == 100

SAFE_SIGMA == 200

LOTTERY_JUMP_RETURN == 5000

LOTTERY_JUMP_PROB == 10

MIN_B_JUMPS == 2

B_MU_NORMAL == -200

B_SIGMA_NORMAL == 1000

\* 0.18, in hundredths
B_K_REVERT == 18

B_CRASH_RETURN == -4500

B_CRASH_PROB == 8

B_POSTJUMP_CRASH_PROB == 45

B_RETURN_MIN == -6000

B_RETURN_MAX == 2500

C_COIN_RETURN == 800

C_COIN_PROB == 50

D_MU == -100

D_SIGMA == 2200

D_RETURN_MIN == -7000

D_RETURN_MAX == 7000

\* The price floor 0.10 of next_b = max(next_b, 0.10)
PRICE_FLOOR == 10

\* The minimum number of urgency rounds: if len(urgent) < 2
MIN_URGENT == 2

\* num_demo_participants of the session config
num_demo_participants == 1

\* The sizes of the sessions whose participants play side by side.
SessionSizes == {1, 2}

NUM_ROUNDS(a) == IF a = "mini_pilot_trading" THEN NumRoundsMini ELSE NumRoundsMulti

\* The underlying asset codes of an app, and the buy priority order.
AssetOrder(a) ==
    IF a = "mini_pilot_trading" THEN <<"A", "B">> ELSE <<"A", "B", "C", "D">>

Assets(a) == {AssetOrder(a)[i] : i \in 1..Len(AssetOrder(a))}

PriceKey(x) ==
    CASE x = "A" -> "prices_a"
      [] x = "B" -> "prices_b"
      [] x = "C" -> "prices_c"
      [] x = "D" -> "prices_d"

\* needed = ("prices_a", "prices_b", [...], "returns_b")
needed(a) == {PriceKey(x) : x \in Assets(a)} \cup {"returns_b"}

\* ------------------------------------------------------------------
\* Python arithmetic
\* ------------------------------------------------------------------
Min(x, y) == IF x <= y THEN x ELSE y

Max(x, y) == IF x >= y THEN x ELSE y

RECURSIVE Pow2(_)
Pow2(n) == IF n <= 0 THEN 1 ELSE 2 * Pow2(n - 1)

RECURSIVE Pow2Mod100(_)
Pow2Mod100(n) == IF n <= 0 THEN 1 ELSE (2 * Pow2Mod100(n - 1)) % 100

\* The binary exponent E of the double nearest to x/100 (x > 0 cents):
\* 2^E <= x/100 < 2^(E+1).
RECURSIVE ExpUp(_, _)
ExpUp(x, e) == IF 100 * Pow2(e + 1) <= x THEN ExpUp(x, e + 1) ELSE e

RECURSIVE ExpDown(_, _)
ExpDown(x, e) == IF x * Pow2(e) < 100 THEN ExpDown(x, e + 1) ELSE 0 - e

BinExp(x) == IF x >= 100 THEN ExpUp(x, 0) ELSE ExpDown(x, 0)

\* float(x/100) - x/100, the representation error of x cents as a double,
\* in hundredths of a unit in the last place (53-bit significand, round to
\* nearest; a tie cannot occur for an amount in cents).
FloatErr(x) ==
    LET r == ((x % 100) * Pow2Mod100(52 - BinExp(x))) % 100
    IN  IF r < 50 THEN 0 - r ELSE 100 - r

\* int(float(cash) // float(price)) on doubles, cash and price in cents:
\* Python's float floor division is the floor of the exact quotient of the
\* two doubles, so it equals cash \div price unless price divides cash, and
\* then it is one less when float(cash) < k * float(price).
FloatFloorDiv(cash, price) ==
    LET k == cash \div price
    IN  IF cash % price # 0 \/ k = 0 THEN k
        ELSE IF FloatErr(cash) * Pow2(BinExp(cash) - BinExp(price)) >= k * FloatErr(price)
             THEN k
             ELSE k - 1

\* cu(x): oTree's Currency quantises to 2 decimals (USE_POINTS = False).
\* Every amount handed to cu() here is a sum of integer multiples of
\* 2-decimal prices and of Currency values, so its quantisation is the
\* amount in whole cents.
cu(x) == x

\* round(x, 2) of a price x given in 1e-4 cents: the nearest cent; at an
\* exact half the double product lies on either side, so both are results.
round2(x) ==
    LET q == x \div 10000
        r == x % 10000
    IN  IF r < 5000 THEN {q} ELSE IF r > 5000 THEN {q + 1} ELSE {q, q + 1}

\* rng.gauss(mu, sigma) for the standard score z (hundredths of a sigma).
gauss(mu, sigma, z) == mu + ((sigma * z) \div 100)

\* sorted(list) of a set of round numbers
RECURSIVE sorted(_)
sorted(S) ==
    IF S = {} THEN <<>>
    ELSE LET m == CHOOSE x \in S : \A y \in S : x <= y
         IN  <<m>> \o sorted(S \ {m})

Range(s) == {s[i] : i \in 1..Len(s)}

RECURSIVE SumOver(_, _)
SumOver(S, f) ==
    IF S = {} THEN 0
    ELSE LET x == CHOOSE y \in S : TRUE
         IN  f[x] + SumOver(S \ {x}, f)

\* ------------------------------------------------------------------
\* Random draws
\* ------------------------------------------------------------------
\* The largest standard score rng.gauss can return, in hundredths:
\* sqrt(-2 ln(1 - random())) <= sqrt(-2 ln 2^-53) = 8.57.
GaussZMax == 857

\* The uniform draw (percent) of the typical draw profile.
TypicalU == 30

\* A uniform draw (percent) below every selection and crash probability.
LowU == 5

\* A draw profile: the outcomes each kind of draw of a session's random
\* streams may take (u: rng.random() in percent; za, zb, zd: the standard
\* scores of the rng.gauss draws of assets A, B, D; perms: the outcomes of
\* rng.shuffle).
TypicalDraws ==
    [u |-> {TypicalU}, za |-> {0}, zb |-> {0}, zd |-> {0},
     perms |-> {<<"C", "A", "D", "B">>}]

\* The Gaussian draws of A and D at the two ends of their range.
FloorDraws ==
    [u |-> {TypicalU}, za |-> {0 - GaussZMax, GaussZMax}, zb |-> {0},
     zd |-> {0 - GaussZMax, GaussZMax}, perms |-> {<<"C", "A", "D", "B">>}]

\* The draws of a session played by several participants: the shuffles of
\* the display order take two outcomes, the uniform draws of the urgency
\* stream (uu) fall on both sides of the selection probability.
CueDraws ==
    [u |-> {TypicalU}, za |-> {0}, zb |-> {0}, zd |-> {0},
     perms |-> {<<"C", "A", "D", "B">>, <<"B", "D", "A", "C">>},
     uu |-> {LowU, TypicalU}]

\* The uniform draws of the price stream on both sides of the selection and
\* crash probabilities, the Gaussian draw of B far in its upper tail.
GenDraws ==
    [u |-> {LowU, TypicalU}, za |-> {0}, zb |-> {GaussZMax}, zd |-> {0},
     perms |-> {<<"C", "A", "D", "B">>}]

\* One rng.random() per member of the range lo..hi, in order: the outcomes
\* the values U allow.
Draws(U, lo, hi) == [lo..hi -> U]

\* [t for t in range(lo, hi + 1) if rng.random() < prob] for the draws us
\* (as a set; the comprehension keeps the ascending order).
selected(us, prob) == {t \in DOMAIN us : us[t] < prob}

\* The draws us of the range lo..hi as the sequence they were made in.
InOrder(us, lo, hi) == [i \in 1..(hi - lo + 1) |-> us[lo + i - 1]]

\* rng.sample(remaining, k): any k distinct members.
sample(remaining, k) == {S \in SUBSET remaining : Cardinality(S) = k}

\* ------------------------------------------------------------------
\* State
\* ------------------------------------------------------------------
VARIABLES
    app,               \* the app the session runs
    num_participants,  \* the number of participants of the session
    session_vars,      \* session.vars: a function from the keys present
    participant_vars,  \* participant.vars of each participant, likewise
    player,            \* the Player rows: player[p][r] for round r
    cs_round,          \* the round of the next creating_session call
    frame,             \* the running activation of ensure_price_paths
    round_number,      \* the round of the page each participant is on
    drawn              \* drawn[seed]: the draws that the random.Random(seed)
                       \* instances of the session have handed out, in order

vars == <<app, num_participants, session_vars, participant_vars, player, cs_round,
          frame, round_number, drawn>>

\* The participants of the session: their id_in_session
Participants == 1..num_participants

NoVars == [k \in {} |-> 0]

NoFrame == [pc |-> "none"]

Put(f, k, v) == [x \in DOMAIN f \cup {k} |-> IF x = k THEN v ELSE f[x]]

Zero(a) == [x \in Assets(a) |-> 0]

\* The fields of a Player row with their initial values (wealth_now is
\* wealth_today, gain_from_price_move is gain_from_prices in mini_pilot).
NewPlayer(a) ==
    [cash |-> 0, qty |-> Zero(a), buy |-> Zero(a), sell |-> Zero(a),
     exec_buy |-> Zero(a), exec_sell |-> Zero(a), timed_out |-> FALSE,
     wealth_now |-> 0, wealth_next |-> 0, gain_from_price_move |-> 0]

\* A new session of n participants, before its creating_session calls.
InitSession(n) ==
    /\ app \in Apps
    /\ num_participants = n
    /\ session_vars = NoVars
    /\ participant_vars = [p \in Participants |-> NoVars]
    /\ player = [p \in Participants |-> [r \in 1..NUM_ROUNDS(app) |-> NewPlayer(app)]]
    /\ cs_round = 1
    /\ frame = NoFrame
    /\ round_number = [p \in Participants |-> 1]
    /\ drawn = NoVars

\* The session of the configured size.
Init == InitSession(num_demo_participants)

\* ------------------------------------------------------------------
\* Seeds of the random streams
\* ------------------------------------------------------------------
\* str(session.code): the session code is fixed for the session.
session_code == "code"

\* A seed of the price stream that is not the session code alone.
paths_seed_with_suffix == session_code \o "_urgency"

\* random.Random(str(session.code)) of ensure_price_paths
paths_seed == session_code

\* random.Random(str(session.code) + "_urgency") of ensure_urgency_rounds
urgency_seed == session_code \o "_urgency"

\* random.Random(str(session.code) + "_" + str(participant.id_in_session))
ui_seed(p) == session_code \o "_" \o ToString(p)

\* The draws handed out so far by the instances seeded with seed.
Drawn(seed) == IF seed \in DOMAIN drawn THEN drawn[seed] ELSE <<>>

\* One more instance seeded with seed hands out the draws ds.
Draw(seed, ds) == Put(drawn, seed, Drawn(seed) \o ds)

\* ------------------------------------------------------------------
\* ensure_price_paths
\* ------------------------------------------------------------------
\* The presence check that never finds the price state.
PathsNeverPresent == FALSE

\* The presence check that is content with one of the keys.
PathsAnyPresent == \E k \in needed(app) : k \in DOMAIN session_vars

\* if all(k in session.vars for k in needed): return
PathsPresent == needed(app) \subseteq DOMAIN session_vars

\* prices.append(round(prices[-1] * (1.0 + r), 2)): assets A and C
next_price(prev, r) == round2(prev * (10000 + r))

\* The update of B and D with the max() left out.
next_price_unfloored(prev, r) == round2(prev * (10000 + r))

\* next = max(prices[-1] * (1.0 + r), 0.10); prices.append(round(next, 2)):
\* assets B and D
next_price_floored(prev, r) == round2(Max(prev * (10000 + r), PRICE_FLOOR * 10000))

\* The return of B in a non-jump period with the base crash probability
\* whatever the previous period was.
b_return_base_crash_only(prev_was_jump, u, z, last_price) ==
    LET noisy == gauss(B_MU_NORMAL, B_SIGMA_NORMAL, z)
        revert == 0 - ((B_K_REVERT * 100 * (last_price - START_PRICE)) \div START_PRICE)
    IN  IF u < B_CRASH_PROB THEN B_CRASH_RETURN
        ELSE Max(Min(noisy + revert, B_RETURN_MAX), B_RETURN_MIN)

\* The return of B in a non-jump period with the band left out.
b_return_unclamped(prev_was_jump, u, z, last_price) ==
    LET crash_p == IF prev_was_jump THEN B_POSTJUMP_CRASH_PROB ELSE B_CRASH_PROB
        noisy == gauss(B_MU_NORMAL, B_SIGMA_NORMAL, z)
        revert == 0 - ((B_K_REVERT * 100 * (last_price - START_PRICE)) \div START_PRICE)
    IN  IF u < crash_p THEN B_CRASH_RETURN ELSE noisy + revert

\* The return of B in a non-jump period: a crash, or a noisy move with the
\* mean-reversion term, kept within the band.
b_return(prev_was_jump, u, z, last_price) ==
    LET crash_p == IF prev_was_jump THEN B_POSTJUMP_CRASH_PROB ELSE B_CRASH_PROB
        noisy == gauss(B_MU_NORMAL, B_SIGMA_NORMAL, z)
        \* -K_REVERT * (ratio - 1.0), ratio = prices_b[-1] / base_b
        revert == 0 - ((B_K_REVERT * 100 * (last_price - START_PRICE)) \div START_PRICE)
    IN  IF u < crash_p THEN B_CRASH_RETURN
        ELSE Max(Min(noisy + revert, B_RETURN_MAX), B_RETURN_MIN)

\* r_d = max(min(rng.gauss(D_MU, D_SIGMA), D_RETURN_MAX), D_RETURN_MIN)
d_return(z) == Max(Min(gauss(D_MU, D_SIGMA, z), D_RETURN_MAX), D_RETURN_MIN)

c_return(u) == IF u < C_COIN_PROB THEN C_COIN_RETURN ELSE 0 - C_COIN_RETURN

Last(s) == s[Len(s)]

\* A generating call that starts without the presence check.
ensure_price_paths_enter_unchecked(D) ==
    /\ cs_round <= NUM_ROUNDS(app)
    /\ frame = NoFrame
    /\ \E us \in Draws(D.u, 1, NUM_ROUNDS(app)) :
          LET pre == selected(us, LOTTERY_JUMP_PROB)
              short == Cardinality(pre) < MIN_B_JUMPS
          IN  \E extra \in (IF short
                            THEN sample((1..NUM_ROUNDS(app)) \ pre, MIN_B_JUMPS - Cardinality(pre))
                            ELSE {{}}) :
                 LET jump_periods == sorted(pre \cup extra)
                 IN  /\ session_vars' = Put(session_vars, "jump_periods_b", jump_periods)
                     /\ frame' = [pc |-> "loop", period |-> 1,
                                  prices |-> [x \in Assets(app) |-> <<START_PRICE>>],
                                  returns_b |-> <<>>,
                                  jump_periods |-> jump_periods,
                                  prev_was_jump |-> FALSE]
                     /\ drawn' = Draw(paths_seed,
                                      InOrder(us, 1, NUM_ROUNDS(app))
                                         \o (IF short THEN <<extra>> ELSE <<>>))
    /\ UNCHANGED <<app, num_participants, participant_vars, player, cs_round, round_number>>

\* The first part of a generating call: the presence check fails, the jump
\* periods of B are chosen and stored, the lists start at the start prices.
ensure_price_paths_enter(D) ==
    /\ cs_round <= NUM_ROUNDS(app)
    /\ frame = NoFrame
    /\ ~PathsPresent
    /\ \E us \in Draws(D.u, 1, NUM_ROUNDS(app)) :
          LET pre == selected(us, LOTTERY_JUMP_PROB)
              short == Cardinality(pre) < MIN_B_JUMPS
          IN  \E extra \in (IF short
                            THEN sample((1..NUM_ROUNDS(app)) \ pre, MIN_B_JUMPS - Cardinality(pre))
                            ELSE {{}}) :
                 LET jump_periods == sorted(pre \cup extra)
                 IN  /\ session_vars' = Put(session_vars, "jump_periods_b", jump_periods)
                     /\ frame' = [pc |-> "loop", period |-> 1,
                                  prices |-> [x \in Assets(app) |-> <<START_PRICE>>],
                                  returns_b |-> <<>>,
                                  jump_periods |-> jump_periods,
                                  prev_was_jump |-> FALSE]
                     /\ drawn' = Draw(paths_seed,
                                      InOrder(us, 1, NUM_ROUNDS(app))
                                         \o (IF short THEN <<extra>> ELSE <<>>))
    /\ UNCHANGED <<app, num_participants, participant_vars, player, cs_round, round_number>>

\* One iteration of  for period in range(1, C.NUM_ROUNDS + 1).
ensure_price_paths_period(D) ==
    /\ frame.pc = "loop"
    /\ frame.period <= NUM_ROUNDS(app)
    /\ \E za \in D.za, ub \in D.u, zb \in D.zb, uc \in D.u, zd \in D.zd :
          LET jump == frame.period \in Range(frame.jump_periods)
              crash_p == IF frame.prev_was_jump THEN B_POSTJUMP_CRASH_PROB ELSE B_CRASH_PROB
              r_a  == gauss(SAFE_MU, SAFE_SIGMA, za)
              r_b  == IF jump THEN LOTTERY_JUMP_RETURN
                      ELSE b_return(frame.prev_was_jump, ub, zb, Last(frame.prices["B"]))
              nexts == [x \in Assets(app) |->
                          CASE x = "A" -> next_price(Last(frame.prices["A"]), r_a)
                            [] x = "B" -> next_price_floored(Last(frame.prices["B"]), r_b)
                            [] x = "C" -> next_price(Last(frame.prices["C"]), c_return(uc))
                            [] x = "D" -> next_price_floored(Last(frame.prices["D"]), d_return(zd))]
              \* the draws this period consumes, in the order of the code
              consumed == <<za>>
                          \o (IF jump THEN <<>>
                              ELSE IF ub < crash_p THEN <<ub>> ELSE <<ub, zb>>)
                          \o (IF "C" \in Assets(app) THEN <<uc, zd>> ELSE <<>>)
          IN  \E nxt \in [Assets(app) -> UNION {nexts[x] : x \in Assets(app)}] :
                 /\ \A x \in Assets(app) : nxt[x] \in nexts[x]
                 /\ frame' = [frame EXCEPT
                                 !.period = @ + 1,
                                 !.prices = [x \in Assets(app) |-> Append(@[x], nxt[x])],
                                 !.returns_b = Append(@, r_b),
                                 !.prev_was_jump = jump]
                 /\ drawn' = Draw(paths_seed, consumed)
    /\ UNCHANGED <<app, num_participants, session_vars, participant_vars, player, cs_round, round_number>>

\* The end of a generating call: the lists are stored under their keys.
ensure_price_paths_store ==
    /\ frame.pc = "loop"
    /\ frame.period = NUM_ROUNDS(app) + 1
    /\ session_vars' =
          [k \in DOMAIN session_vars \cup needed(app) |->
              IF k = "returns_b" THEN frame.returns_b
              ELSE IF \E x \in Assets(app) : k = PriceKey(x)
                   THEN frame.prices[CHOOSE x \in Assets(app) : k = PriceKey(x)]
                   ELSE session_vars[k]]
    /\ frame' = NoFrame
    /\ UNCHANGED <<app, num_participants, participant_vars, player, cs_round, round_number, drawn>>

\* ------------------------------------------------------------------
\* creating_session
\* ------------------------------------------------------------------
\* A display order shuffled anew by every call.
ensure_ui_mapping_reshuffled(pv, D) ==
    {Put(pv, "ui_order", o) : o \in D.perms}

\* ensure_ui_mapping_for_participant (multi_asset): shuffled once.
ensure_ui_mapping_for_participant(pv, D) ==
    IF "ui_order" \in DOMAIN pv THEN {pv}
    ELSE {Put(pv, "ui_order", o) : o \in D.perms}

QtyKey(x) ==
    CASE x = "A" -> "qty_a"
      [] x = "B" -> "qty_b"
      [] x = "C" -> "qty_c"
      [] x = "D" -> "qty_d"

\* A carry state that starts without the endowment.
init_carry_without_endowment(pv) ==
    IF "cash" \in DOMAIN pv THEN pv
    ELSE [k \in DOMAIN pv \cup {"cash"} \cup {QtyKey(x) : x \in Assets(app)} |->
             IF k = "cash" \/ k \in {QtyKey(x) : x \in Assets(app)} THEN 0
             ELSE pv[k]]

\* if "cash" not in part.vars: the endowment and zero holdings
init_carry(pv) ==
    IF "cash" \in DOMAIN pv THEN pv
    ELSE [k \in DOMAIN pv \cup {"cash"} \cup {QtyKey(x) : x \in Assets(app)} |->
             IF k = "cash" THEN INITIAL_CASH
             ELSE IF k \in {QtyKey(x) : x \in Assets(app)} THEN 0
             ELSE pv[k]]

\* p.cash = cu(part.vars["cash"]); p.qty_x = int(part.vars["qty_x"])
open_from_carry(rec, pv) ==
    [rec EXCEPT !.cash = cu(pv["cash"]),
                !.qty = [x \in Assets(app) |-> pv[QtyKey(x)]]]

\* creating_session(subsession) of round cs_round, after its call of
\* ensure_price_paths found or left the price state stored.
creating_session(D) ==
    /\ cs_round <= NUM_ROUNDS(app)
    /\ frame = NoFrame
    /\ PathsPresent
    /\ IF cs_round = 1
       THEN \E pvs \in [Participants -> UNION {
                          IF app = "multi_asset_trading"
                          THEN ensure_ui_mapping_for_participant(init_carry(participant_vars[p]), D)
                          ELSE {init_carry(participant_vars[p])} : p \in Participants}] :
               /\ \A p \in Participants :
                     pvs[p] \in (IF app = "multi_asset_trading"
                                 THEN ensure_ui_mapping_for_participant(init_carry(participant_vars[p]), D)
                                 ELSE {init_carry(participant_vars[p])})
               /\ participant_vars' = pvs
               /\ player' = [p \in Participants |->
                               [player[p] EXCEPT ![1] = open_from_carry(@, pvs[p])]]
               \* each mapping computed in this call is the one shuffle of
               \* the stream of its participant
               /\ LET shuffled == {p \in Participants :
                                      /\ "ui_order" \in DOMAIN pvs[p]
                                      /\ "ui_order" \notin DOMAIN participant_vars[p]}
                  IN  drawn' = [k \in DOMAIN drawn \cup {ui_seed(p) : p \in shuffled} |->
                                  IF \E p \in shuffled : k = ui_seed(p)
                                  THEN Drawn(k) \o <<pvs[CHOOSE p \in shuffled : k = ui_seed(p)]["ui_order"]>>
                                  ELSE drawn[k]]
       ELSE UNCHANGED <<participant_vars, player, drawn>>
    /\ cs_round' = cs_round + 1
    /\ UNCHANGED <<app, num_participants, session_vars, frame, round_number>>

\* ------------------------------------------------------------------
\* Prices of a round
\* ------------------------------------------------------------------
\* The current price read at the index of the round number.
price_now_at_round_number(x, r) == session_vars[PriceKey(x)][r + 1]

\* price_x_now: prices_x[self.round_number - 1] (a Python list, 0-based)
price_now(x, r) == session_vars[PriceKey(x)][r]

\* The next price read at the index of the current price.
price_next_at_current(x, r) == session_vars[PriceKey(x)][r]

\* price_x_next: prices_x[self.round_number]
price_next(x, r) == session_vars[PriceKey(x)][r + 1]

prices_now(r) == [x \in Assets(app) |-> price_now(x, r)]

prices_next(r) == [x \in Assets(app) |-> price_next(x, r)]

\* Sum over the assets of an app of q[x] * p[x]
Value(a, q, p) == SumOver(Assets(a), [x \in Assets(a) |-> q[x] * p[x]])

\* ------------------------------------------------------------------
\* The urgency cue
\* ------------------------------------------------------------------
\* The candidate rounds with round 1 among them.
candidates_from_round_1 == 1..NUM_ROUNDS(app)

\* candidates = list(range(2, C.NUM_ROUNDS + 1))
candidates == 2..NUM_ROUNDS(app)

\* ensure_urgency_rounds(session) of mini_pilot_trading: a no-op once the
\* schedule is stored; otherwise the first draw, the top-up to the minimum
\* and the store of the sorted list.
ensure_urgency_rounds(D) ==
    IF "urgent_rounds_b" \in DOMAIN session_vars
    THEN UNCHANGED <<session_vars, drawn>>
    ELSE \E us \in Draws(D.uu, 2, NUM_ROUNDS(app)) :
            LET urgent == selected(us, LOTTERY_JUMP_PROB)
                short == Cardinality(urgent) < MIN_URGENT
            IN  \E extra \in (IF short
                              THEN sample(candidates \ urgent, MIN_URGENT - Cardinality(urgent))
                              ELSE {{}}) :
                   /\ session_vars' = Put(session_vars, "urgent_rounds_b",
                                          sorted(urgent \cup extra))
                   /\ drawn' = Draw(urgency_seed,
                                    InOrder(us, 2, NUM_ROUNDS(app))
                                       \o (IF short THEN <<extra>> ELSE <<>>))

\* The value asset_b_jump_now returns in round r from the session state sv
\* (in mini_pilot_trading after its call of ensure_urgency_rounds):
\* multi_asset:  returns_b[round_number - 2] == LOTTERY_JUMP_RETURN
\* mini_pilot:   round_number in session.vars["urgent_rounds_b"]
asset_b_jump_now(sv, r) ==
    IF r = 1 THEN FALSE
    ELSE IF app = "multi_asset_trading"
         THEN sv["returns_b"][r - 1] = LOTTERY_JUMP_RETURN
         ELSE r \in Range(sv["urgent_rounds_b"])

\* ------------------------------------------------------------------
\* multi_asset_trading: Player.execute_trades
\* ------------------------------------------------------------------
\* The sell executed as requested, not capped by the holding.
sell_units_uncapped(requested, held) == requested

\* s_x = min(int(self.sell_x), int(self.qty_x))
sell_units(requested, held) == Min(requested, held)

\* affordable = int(float(self.cash) // float(price))
affordable(cash, price) == FloatFloorDiv(cash, price)

\* The buy executed as requested, not capped by the cash.
buy_units_uncapped(requested, price, cash) == IF price <= 0 THEN 0 ELSE requested

\* buy_units(requested, price): the units bought at the cash held
buy_units(requested, price, cash) ==
    IF price <= 0 THEN 0 ELSE Min(requested, affordable(cash, price))

\* b_a = buy_units(self.buy_a, p_a); ... b_d = buy_units(self.buy_d, p_d):
\* the buys in priority order from asset number i on, each debiting
\* self.cash before the next is sized.  The result is <<cash, bought>>.
RECURSIVE buy_in_order(_, _, _, _, _)
buy_in_order(order, i, requested, p, st) ==
    IF i > Len(order) THEN st
    ELSE LET x == order[i]
             units == buy_units(requested[x], p[x], st[1])
         IN  buy_in_order(order, i + 1, requested, p,
                          <<st[1] - cu(units * p[x]), [st[2] EXCEPT ![x] = units]>>)

\* The proceeds of the sells less a fee of one cent per unit sold.
credit_sells_less_fee(cash, s, p) ==
    cash + cu(Value("multi_asset_trading", s, p))
         - SumOver(Assets("multi_asset_trading"), s)

\* The proceeds of the sells never reach the cash the buys are sized on.
credit_sells_dropped(cash, s, p) == cash

\* self.cash += cu(s_a * p_a + s_b * p_b + s_c * p_c + s_d * p_d)
credit_sells(cash, s, p) == cash + cu(Value("multi_asset_trading", s, p))

\* The valuation with the holding of the last asset left out.
portfolio_value_without_d(cash, qty, p) ==
    cash + Value("multi_asset_trading", qty, p) - qty["D"] * p["D"]

\* float(self.cash) + self.qty_a * p_a + ... + self.qty_d * p_d
portfolio_value(cash, qty, p) == cash + Value("multi_asset_trading", qty, p)

execute_trades(rec, p, p2) ==
    LET As == Assets("multi_asset_trading")
        s == [x \in As |-> sell_units(rec.sell[x], rec.qty[x])]
        cash1 == credit_sells(rec.cash, s, p)
        bought == buy_in_order(AssetOrder("multi_asset_trading"), 1, rec.buy, p,
                               <<cash1, [x \in As |-> 0]>>)
        cash2 == bought[1]
        b == bought[2]
        qty2 == [x \in As |-> rec.qty[x] - s[x] + b[x]]
        wealth_today == portfolio_value(cash2, qty2, p)
        wealth_next == portfolio_value(cash2, qty2, p2)
    IN  [rec EXCEPT !.qty = qty2, !.cash = cash2,
                    !.exec_sell = s, !.exec_buy = b,
                    !.wealth_now = cu(wealth_today),
                    !.wealth_next = cu(wealth_next),
                    !.gain_from_price_move = cu(wealth_next - wealth_today)]

\* Player.persist_state
persist_state(pv, rec) ==
    [k \in DOMAIN pv \cup {"cash"} \cup {QtyKey(x) : x \in Assets(app)} |->
        IF k = "cash" THEN rec.cash
        ELSE IF \E x \in Assets(app) : k = QtyKey(x)
             THEN rec.qty[CHOOSE x \in Assets(app) : k = QtyKey(x)]
             ELSE pv[k]]

\* The push that carries the holdings and forgets the cash.
push_qty_only(rows, r, rec) ==
    IF r < NUM_ROUNDS(app)
    THEN [rows EXCEPT ![r] = rec, ![r + 1].qty = rec.qty]
    ELSE [rows EXCEPT ![r] = rec]

\* The push without the test for a following round: a row is written for
\* the round after r whether the app has one or not.
push_unguarded(rows, r, rec) ==
    [q \in DOMAIN rows \cup {r + 1} |->
        IF q = r THEN rec
        ELSE IF q = r + 1
             THEN IF q \in DOMAIN rows
                  THEN [rows[q] EXCEPT !.cash = rec.cash, !.qty = rec.qty]
                  ELSE [NewPlayer(app) EXCEPT !.cash = rec.cash, !.qty = rec.qty]
             ELSE rows[q]]

\* The push that copies the whole row into the row of the next round.
push_whole_row(rows, r, rec) ==
    IF r < NUM_ROUNDS(app)
    THEN [rows EXCEPT ![r] = rec, ![r + 1] = rec]
    ELSE [rows EXCEPT ![r] = rec]

\* The push that carries the cash and forgets the holdings.
push_cash_only(rows, r, rec) ==
    IF r < NUM_ROUNDS(app)
    THEN [rows EXCEPT ![r] = rec, ![r + 1].cash = rec.cash]
    ELSE [rows EXCEPT ![r] = rec]

\* Player.push_state_to_next_round: the rows of participant p after round
\* r's row became rec
push_state_to_next_round(rows, r, rec) ==
    IF r < NUM_ROUNDS(app)
    THEN [rows EXCEPT ![r] = rec, ![r + 1].cash = rec.cash, ![r + 1].qty = rec.qty]
    ELSE [rows EXCEPT ![r] = rec]

\* ------------------------------------------------------------------
\* mini_pilot_trading: Player.execute_trades_and_carry_forward
\* ------------------------------------------------------------------
\* self.exec_sell_a = min(int(self.sell_a), int(self.qty_a))
exec_sell_of(sell, qty) == Min(sell, qty)

\* The affordable units rounded up instead of down.
max_buy_rounded_up(cash, price) ==
    IF price > 0 THEN (cash + price - 1) \div price ELSE 0

\* max_buy_a = int(float(self.cash) // p_a) if p_a > 0 else 0
max_buy(cash, price) == IF price > 0 THEN FloatFloorDiv(cash, price) ELSE 0

\* steps 1 to 3: the row after the sells, the buys and the valuation
mini_trade(rec, p, p2) ==
    LET exec_sell_a == exec_sell_of(rec.sell["A"], rec.qty["A"])
        exec_sell_b == exec_sell_of(rec.sell["B"], rec.qty["B"])
        cash1 == rec.cash + cu(exec_sell_a * p["A"] + exec_sell_b * p["B"])
        exec_buy_a == Min(rec.buy["A"], max_buy(cash1, p["A"]))
        cash2 == cash1 - cu(exec_buy_a * p["A"])
        exec_buy_b == Min(rec.buy["B"], max_buy(cash2, p["B"]))
        cash3 == cash2 - cu(exec_buy_b * p["B"])
        qty_a == rec.qty["A"] - exec_sell_a + exec_buy_a
        qty_b == rec.qty["B"] - exec_sell_b + exec_buy_b
        wealth_now == cu(cash3 + qty_a * p["A"] + qty_b * p["B"])
        wealth_next == cu(cash3 + qty_a * p2["A"] + qty_b * p2["B"])
    IN  [rec EXCEPT !.qty = [x \in {"A", "B"} |-> IF x = "A" THEN qty_a ELSE qty_b],
                    !.cash = cash3,
                    !.exec_sell = [x \in {"A", "B"} |-> IF x = "A" THEN exec_sell_a ELSE exec_sell_b],
                    !.exec_buy = [x \in {"A", "B"} |-> IF x = "A" THEN exec_buy_a ELSE exec_buy_b],
                    !.wealth_now = wealth_now,
                    !.wealth_next = wealth_next,
                    !.gain_from_price_move = wealth_next - wealth_now]

\* step 4: participant.vars["cash"], ["qty_a"], ["qty_b"]
mini_persist(pv, rec) ==
    [k \in DOMAIN pv \cup {"cash", "qty_a", "qty_b"} |->
        CASE k = "cash" -> rec.cash
          [] k = "qty_a" -> rec.qty["A"]
          [] k = "qty_b" -> rec.qty["B"]
          [] OTHER -> pv[k]]

\* step 5: nxt = self.in_round(self.round_number + 1)
mini_push(rows, r, rec) ==
    IF r < NUM_ROUNDS(app)
    THEN [rows EXCEPT ![r] = rec, ![r + 1].cash = rec.cash, ![r + 1].qty = rec.qty]
    ELSE [rows EXCEPT ![r] = rec]

\* ------------------------------------------------------------------
\* The Trade page
\* ------------------------------------------------------------------
Only(a, x, q) == [y \in Assets(a) |-> IF y = x THEN q ELSE 0]

\* The asset the forms below trade most: the last one of mini_pilot, the
\* coin-flip asset of multi_asset.
Focus(a) == IF a = "mini_pilot_trading" THEN "B" ELSE "C"

\* The form contents a participant submits (all fields have min=0).
Forms(a) ==
    { [buy |-> Zero(a), sell |-> Zero(a)],
      [buy |-> Only(a, Focus(a), BigQty), sell |-> Zero(a)],
      [buy |-> Only(a, Focus(a), BigQty), sell |-> Only(a, Focus(a), BigQty)],
      [buy |-> [x \in Assets(a) |-> IF x = "A" THEN SmallQty ELSE BigQty], sell |-> Zero(a)],
      [buy |-> Only(a, "A", BigQty), sell |-> [x \in Assets(a) |-> BigQty]],
      [buy |-> Zero(a), sell |-> Only(a, Focus(a), SmallQty)] }

\* The form contents at the moment a timeout auto-submits the page.
TimeoutForms(a) ==
    { [buy |-> Zero(a), sell |-> Zero(a)],
      [buy |-> Only(a, Focus(a), BigQty), sell |-> Zero(a)] }

\* The session is created and participant p is on the Trade page of round r.
OnTrade(p, r) ==
    /\ cs_round = NUM_ROUNDS(app) + 1
    /\ frame = NoFrame
    /\ PathsPresent
    /\ round_number[p] = r
    /\ r <= NUM_ROUNDS(app)

\* The page of multi_asset_trading with the portfolio kept once for the
\* session: the executed round's cash and holdings become the carry state
\* and the next row's opening state of every participant.
Trade_before_next_page_multi_shared(p, timeout_happened, form) ==
    /\ app = "multi_asset_trading"
    /\ OnTrade(p, round_number[p])
    /\ LET r == round_number[p]
           stored == [player[p][r] EXCEPT !.buy = form.buy, !.sell = form.sell]
           zeroed == IF timeout_happened
                     THEN [stored EXCEPT !.timed_out = TRUE,
                                         !.buy = Zero(app), !.sell = Zero(app)]
                     ELSE [stored EXCEPT !.timed_out = FALSE]
           rec == execute_trades(zeroed, prices_now(r), prices_next(r))
       IN  /\ participant_vars' = [o \in Participants |-> persist_state(participant_vars[o], rec)]
           /\ player' = [o \in Participants |->
                            IF o = p THEN push_state_to_next_round(player[o], r, rec)
                            ELSE IF r < NUM_ROUNDS(app)
                                 THEN [player[o] EXCEPT ![r + 1].cash = rec.cash,
                                                        ![r + 1].qty = rec.qty]
                                 ELSE player[o]]
           /\ round_number' = [round_number EXCEPT ![p] = r + 1]
    /\ UNCHANGED <<app, num_participants, session_vars, cs_round, frame, drawn>>

\* multi_asset_trading: Trade.before_next_page(player, timeout_happened),
\* on the row whose form fields oTree has just stored.
Trade_before_next_page_multi(p, timeout_happened, form) ==
    /\ app = "multi_asset_trading"
    /\ OnTrade(p, round_number[p])
    /\ LET r == round_number[p]
           stored == [player[p][r] EXCEPT !.buy = form.buy, !.sell = form.sell]
           zeroed == IF timeout_happened
                     THEN [stored EXCEPT !.timed_out = TRUE,
                                         !.buy = Zero(app), !.sell = Zero(app)]
                     ELSE [stored EXCEPT !.timed_out = FALSE]
           rec == execute_trades(zeroed, prices_now(r), prices_next(r))
       IN  /\ participant_vars' = [participant_vars EXCEPT ![p] = persist_state(@, rec)]
           /\ player' = [player EXCEPT ![p] = push_state_to_next_round(@, r, rec)]
           /\ round_number' = [round_number EXCEPT ![p] = r + 1]
    /\ UNCHANGED <<app, num_participants, session_vars, cs_round, frame, drawn>>

\* mini_pilot_trading: Trade.before_next_page(player, timeout_happened)
Trade_before_next_page_mini(p, timeout_happened, form) ==
    /\ app = "mini_pilot_trading"
    /\ OnTrade(p, round_number[p])
    /\ LET r == round_number[p]
           stored == [player[p][r] EXCEPT !.buy = form.buy, !.sell = form.sell,
                                          !.timed_out = timeout_happened]
           rec == mini_trade(stored, prices_now(r), prices_next(r))
       IN  /\ participant_vars' = [participant_vars EXCEPT ![p] = mini_persist(@, rec)]
           /\ player' = [player EXCEPT ![p] = mini_push(@, r, rec)]
           /\ round_number' = [round_number EXCEPT ![p] = r + 1]
    /\ UNCHANGED <<app, num_participants, session_vars, cs_round, frame, drawn>>

\* multi_asset_trading: Trade.vars_for_template(player).  ui_slots() calls
\* ensure_ui_mapping_for_participant, asset_b_jump_now and the price
\* accessors, whose ensure_price_paths finds the price state stored.
Trade_vars_for_template_multi(p, D) ==
    /\ app = "multi_asset_trading"
    /\ OnTrade(p, round_number[p])
    /\ \E pv \in ensure_ui_mapping_for_participant(participant_vars[p], D) :
          /\ participant_vars' = [participant_vars EXCEPT ![p] = pv]
          /\ drawn' = IF "ui_order" \in DOMAIN participant_vars[p] THEN drawn
                      ELSE Draw(ui_seed(p), <<pv["ui_order"]>>)
    /\ UNCHANGED <<app, num_participants, session_vars, player, cs_round, frame, round_number>>

\* mini_pilot_trading: Trade.vars_for_template(player).  The price
\* accessors find the price state stored; asset_b_jump_now returns False in
\* round 1 and calls ensure_urgency_rounds in every later round.
Trade_vars_for_template_mini(p, D) ==
    /\ app = "mini_pilot_trading"
    /\ OnTrade(p, round_number[p])
    /\ IF round_number[p] = 1
       THEN UNCHANGED <<session_vars, drawn>>
       ELSE ensure_urgency_rounds(D)
    /\ UNCHANGED <<app, num_participants, participant_vars, player, cs_round, frame, round_number>>

\* ------------------------------------------------------------------
\* Specifications
\* ------------------------------------------------------------------
Submit ==
    \E p \in Participants, form \in Forms(app) :
        \/ Trade_before_next_page_multi(p, FALSE, form)
        \/ Trade_before_next_page_mini(p, FALSE, form)

Timeout ==
    \E p \in Participants, form \in TimeoutForms(app) :
        \/ Trade_before_next_page_multi(p, TRUE, form)
        \/ Trade_before_next_page_mini(p, TRUE, form)

\* A session with typical draws, played through by its participants.
Next ==
    \/ ensure_price_paths_enter(TypicalDraws)
    \/ ensure_price_paths_period(TypicalDraws)
    \/ ensure_price_paths_store
    \/ creating_session(TypicalDraws)
    \/ Submit
    \/ Timeout

Spec == Init /\ [][Next]_vars

\* The creation of a session whose Gaussian draws of A and D take the ends
\* of their range.
NextFloor ==
    \/ ensure_price_paths_enter(FloorDraws)
    \/ ensure_price_paths_period(FloorDraws)
    \/ ensure_price_paths_store
    \/ creating_session(FloorDraws)

SpecFloor == Init /\ [][NextFloor]_vars

\* The creation of a session whose uniform draws fall on both sides of the
\* selection and crash probabilities.
NextGen ==
    \/ ensure_price_paths_enter(GenDraws)
    \/ ensure_price_paths_period(GenDraws)
    \/ ensure_price_paths_store
    \/ creating_session(GenDraws)

SpecGen == Init /\ [][NextGen]_vars

\* The form with a typed sell and buy order of the asset in focus.
Typed(a) == [buy |-> Only(a, Focus(a), BigQty), sell |-> Only(a, Focus(a), BigQty)]

\* The Trade page is rendered for a participant.
Render ==
    \E p \in Participants :
        \/ Trade_vars_for_template_multi(p, CueDraws)
        \/ Trade_vars_for_template_mini(p, CueDraws)

\* A participant submits the typed order.
SubmitTyped ==
    \E p \in Participants :
        \/ Trade_before_next_page_multi(p, FALSE, Typed(app))
        \/ Trade_before_next_page_mini(p, FALSE, Typed(app))

InitCue == \E n \in SessionSizes : InitSession(n)

\* Sessions of one or several participants, who load their Trade pages and
\* leave them in any order.
NextCue ==
    \/ ensure_price_paths_enter(CueDraws)
    \/ ensure_price_paths_period(CueDraws)
    \/ ensure_price_paths_store
    \/ creating_session(CueDraws)
    \/ Render
    \/ SubmitTyped

SpecCue == InitCue /\ [][NextCue]_vars

\* Values that no price of the generator takes: zero and a negative price.
NonPositivePrices == {0, 0 - PRICE_FLOOR}

\* Price states handed to the execution engine as they are, not generated:
\* every price is the start price, but for one later price of asset A,
\* which is the start price again or a non-positive value.
GivenPriceStates ==
    {[k \in needed(app) |->
         IF k = "returns_b" THEN [i \in 1..NUM_ROUNDS(app) |-> 0]
         ELSE [i \in 1..(NUM_ROUNDS(app) + 1) |->
                  IF k = "prices_a" /\ i = t THEN v ELSE START_PRICE]] :
        t \in 2..NUM_ROUNDS(app), v \in NonPositivePrices \cup {START_PRICE}}

\* A session whose session.vars hold a given price state before its
\* creating_session calls, so that ensure_price_paths finds it present.
InitEngine ==
    /\ app \in Apps
    /\ num_participants = num_demo_participants
    /\ session_vars \in GivenPriceStates
    /\ participant_vars = [p \in Participants |-> NoVars]
    /\ player = [p \in Participants |-> [r \in 1..NUM_ROUNDS(app) |-> NewPlayer(app)]]
    /\ cs_round = 1
    /\ frame = NoFrame
    /\ round_number = [p \in Participants |-> 1]
    /\ drawn = NoVars

\* The rounds of such a session: the engine runs on the prices it is given.
NextEngine ==
    \/ creating_session(TypicalDraws)
    \/ Submit

SpecEngine == InitEngine /\ [][NextEngine]_vars

\* The forms two participants choose between, round by round.
PairForms(a) ==
    { Typed(a),
      [buy |-> [x \in Assets(a) |-> IF x = "A" THEN SmallQty ELSE 0], sell |-> Zero(a)] }

\* A participant submits one of the two forms.
SubmitPair ==
    \E p \in Participants, form \in PairForms(app) :
        \/ Trade_before_next_page_multi(p, FALSE, form)
        \/ Trade_before_next_page_mini(p, FALSE, form)

\* A session of two participants, whose round executions interleave in
\* every order.
NextPair ==
    \/ ensure_price_paths_enter(TypicalDraws)
    \/ ensure_price_paths_period(TypicalDraws)
    \/ ensure_price_paths_store
    \/ creating_session(TypicalDraws)
    \/ SubmitPair

SpecPair == InitSession(2) /\ [][NextPair]_vars

\* ------------------------------------------------------------------
\* Properties
\* ------------------------------------------------------------------
Rounds == 1..NUM_ROUNDS(app)

\* The stored price of asset x that is current in round r (and next in
\* round r - 1): entry r - 1 of the 0-based list, the r-th of the sequence.
PriceOfRound(x, r) == session_vars[PriceKey(x)][r]

PricesOfRound(r) == [x \in Assets(app) |-> PriceOfRound(x, r)]

\* Round r of participant p has been executed.
Executed(p, r) == r \in Rounds /\ round_number[p] > r

\* This step executes the trade of participant p's current round.
Trades(p) == round_number'[p] = round_number[p] + 1

\* The row of the executed round before and after the step.
Before(p) == player[p][round_number[p]]

After(p) == player'[p][round_number[p]]

\* C1: no overdraft: the cash of every Player row (post-trade and opening)
\* and of the participant carry state is >= 0.
NoOverdraft ==
    \A p \in Participants :
        /\ \A r \in Rounds : player[p][r].cash >= 0
        /\ "cash" \in DOMAIN participant_vars[p] => participant_vars[p]["cash"] >= 0

\* A buy cut down to what the cash affords.
BuyCappedByCash ==
    \E p \in Participants : \E r \in Rounds : \E x \in Assets(app) :
        /\ Executed(p, r)
        /\ player[p][r].exec_buy[x] > 0
        /\ player[p][r].exec_buy[x] < player[p][r].buy[x]

\* C2: no negative holdings: the holding of every asset in every Player
\* row and in the participant carry state is >= 0.
NoNegativeHoldings ==
    \A p \in Participants : \A x \in Assets(app) :
        /\ \A r \in Rounds : player[p][r].qty[x] >= 0
        /\ QtyKey(x) \in DOMAIN participant_vars[p] => participant_vars[p][QtyKey(x)] >= 0

\* An asset oversold (the sell cut down to the holding) and bought in the
\* same round.
OversoldAndBought ==
    \E p \in Participants : \E r \in Rounds : \E x \in Assets(app) :
        /\ Executed(p, r)
        /\ player[p][r].exec_sell[x] > 0
        /\ player[p][r].exec_sell[x] < player[p][r].sell[x]
        /\ player[p][r].exec_buy[x] > 0

\* C3: execution caps: in every executed round, for every asset,
\* 0 <= executed sell <= min(requested sell, opening holding) and
\* 0 <= executed buy <= requested buy, and the executed buys cost at most
\* the opening cash plus the proceeds of the executed sells.
ExecutionCaps ==
    [][\A p \in Participants :
          Trades(p) =>
             LET r == round_number[p]
                 pr == PricesOfRound(r)
             IN  /\ \A x \in Assets(app) :
                       /\ 0 <= After(p).exec_sell[x]
                       /\ After(p).exec_sell[x] <= Min(After(p).sell[x], Before(p).qty[x])
                       /\ 0 <= After(p).exec_buy[x]
                       /\ After(p).exec_buy[x] <= After(p).buy[x]
                 /\ Value(app, After(p).exec_buy, pr)
                       <= Before(p).cash + Value(app, After(p).exec_sell, pr)]_vars

\* A round with a sell cut down to the holding and a buy cut down by cash.
SellAndBuyCapped ==
    \E p \in Participants : \E r \in Rounds : \E x, y \in Assets(app) :
        /\ Executed(p, r)
        /\ player[p][r].exec_sell[x] > 0
        /\ player[p][r].exec_sell[x] < player[p][r].sell[x]
        /\ player[p][r].exec_buy[y] > 0
        /\ player[p][r].exec_buy[y] < player[p][r].buy[y]

\* The proceeds of selling min(requested, opening holding) of every asset.
FullProceeds(p) ==
    Value(app, [x \in Assets(app) |-> Min(After(p).sell[x], Before(p).qty[x])],
          PricesOfRound(round_number[p]))

\* C4: sells are executed before buys: every executed sell is exactly
\* min(requested sell, opening holding) whatever is bought, and the first
\* buy (asset A) is sized on the opening cash plus the proceeds of all the
\* sells of the round.
SellsBeforeBuys ==
    [][\A p \in Participants :
          Trades(p) =>
             /\ \A x \in Assets(app) :
                   After(p).exec_sell[x] = Min(After(p).sell[x], Before(p).qty[x])
             /\ After(p).exec_buy["A"] =
                   Min(After(p).buy["A"],
                       FloatFloorDiv(Before(p).cash + FullProceeds(p),
                                     PriceOfRound("A", round_number[p])))]_vars

\* A buy of asset A that costs more than the cash the round opened with
\* (the cash carried from the round before): funded by the round's sells.
BuyFundedBySell ==
    \E p \in Participants : \E r \in Rounds :
        /\ r > 1
        /\ Executed(p, r)
        /\ SumOver(Assets(app), player[p][r].exec_sell) > 0
        /\ player[p][r].exec_buy["A"] * PriceOfRound("A", r) > player[p][r - 1].cash

\* The cash available to the buy of the i-th asset of the priority order:
\* the opening cash, plus the proceeds of the sells, minus the cost of the
\* buys of the assets before it.
RECURSIVE CostBefore(_, _, _)
CostBefore(p, i, pr) ==
    IF i <= 1 THEN 0
    ELSE After(p).exec_buy[AssetOrder(app)[i - 1]] * pr[AssetOrder(app)[i - 1]]
         + CostBefore(p, i - 1, pr)

CashAvailable(p, i) ==
    LET pr == PricesOfRound(round_number[p])
    IN  Before(p).cash + Value(app, After(p).exec_sell, pr) - CostBefore(p, i, pr)

\* C5: buys are sequential in the priority order: each executed buy is
\* min(requested buy, floor(cash available / price)), and a buy executed
\* short of its request leaves less cash than one unit costs.
SequentialBuys ==
    [][\A p \in Participants :
          Trades(p) =>
             \A i \in 1..Len(AssetOrder(app)) :
                LET x == AssetOrder(app)[i]
                    price == PriceOfRound(x, round_number[p])
                    avail == CashAvailable(p, i)
                IN  /\ After(p).exec_buy[x] = Min(After(p).buy[x], avail \div price)
                    /\ After(p).exec_buy[x] < After(p).buy[x]
                          => avail - After(p).exec_buy[x] * price < price]_vars

\* C6: a timed-out round is a no-trade round: nothing is executed and the
\* cash and holdings stay those the round opened with.
TimeoutIsNoTrade ==
    [][\A p \in Participants :
          (Trades(p) /\ After(p).timed_out) =>
             /\ After(p).exec_buy = Zero(app)
             /\ After(p).exec_sell = Zero(app)
             /\ After(p).cash = Before(p).cash
             /\ After(p).qty = Before(p).qty]_vars

\* The carry state of participant p holds the cash and holdings of row rec.
CarryIs(p, rec) ==
    /\ participant_vars[p]["cash"] = rec.cash
    /\ \A x \in Assets(app) : participant_vars[p][QtyKey(x)] = rec.qty[x]

\* C7: carry-forward: once round r is executed and round r+1 is not, the
\* row of round r+1 opens with the post-trade cash and holdings of round r,
\* and the carry state holds those of the most recently executed round.
CarryForward ==
    \A p \in Participants :
        LET r == round_number[p] - 1
        IN  r >= 1 =>
               /\ CarryIs(p, player[p][r])
               /\ r < NUM_ROUNDS(app) =>
                     /\ player[p][r + 1].cash = player[p][r].cash
                     /\ player[p][r + 1].qty = player[p][r].qty

\* Round 2 was executed and left a portfolio that differs from the
\* endowment; it opens round 3.
CarriedPortfolio ==
    \E p \in Participants :
        /\ round_number[p] = 3
        /\ 3 <= NUM_ROUNDS(app)
        /\ player[p][2].qty # Zero(app)
        /\ player[p][2].cash # player[p][1].cash
        /\ player[p][2].cash > 0

\* C8: wealth identity: after a round's trade, wealth_now (wealth_today)
\* is the post-trade cash plus the post-trade holdings at current prices.
WealthIdentity ==
    \A p \in Participants : \A r \in Rounds :
        Executed(p, r) =>
           player[p][r].wealth_now
              = player[p][r].cash + Value(app, player[p][r].qty, PricesOfRound(r))

\* A round after the first executed with cash and holdings of the last
\* asset left.
MixedPortfolio ==
    \E p \in Participants : \E r \in Rounds :
        /\ r > 1
        /\ Executed(p, r)
        /\ player[p][r].cash > 0
        /\ player[p][r].qty[AssetOrder(app)[Len(AssetOrder(app))]] > 0

\* C9: after a round's trade, wealth_next is the same cash and holdings at
\* the next prices, the gain is wealth_next - wealth_now, and it is 0 when
\* no asset is held.
WealthNext ==
    \A p \in Participants : \A r \in Rounds :
        Executed(p, r) =>
           /\ player[p][r].wealth_next
                 = player[p][r].cash + Value(app, player[p][r].qty, PricesOfRound(r + 1))
           /\ player[p][r].gain_from_price_move
                 = player[p][r].wealth_next - player[p][r].wealth_now
           /\ player[p][r].qty = Zero(app) => player[p][r].gain_from_price_move = 0

\* An executed round whose holdings lose value at the next prices.
LossFromPrices ==
    \E p \in Participants : \E r \in Rounds :
        /\ Executed(p, r)
        /\ player[p][r].gain_from_price_move < 0

CueDetermined ==
    /\ PathsPresent
    /\ app = "mini_pilot_trading" => "urgent_rounds_b" \in DOMAIN session_vars

\* The return of B over the period before round r was the jump return.
AfterJump(r) == r > 1 /\ session_vars["returns_b"][r - 1] = LOTTERY_JUMP_RETURN

\* The rounds in which the cue is shown.
CueRounds == {r \in Rounds : asset_b_jump_now(session_vars, r)}

\* C11: the urgency cue matches a real jump: in every round r the cue is
\* shown if and only if r > 1 and the return of B over the preceding period
\* was the jump return.
UrgencyCueMatchesJump ==
    CueDetermined => \A r \in Rounds : (r \in CueRounds) <=> AfterJump(r)

\* C12: the cue is shown in at least 2 distinct rounds among 2..NUM_ROUNDS.
MinimumCueRounds ==
    CueDetermined => Cardinality(CueRounds \cap (2..NUM_ROUNDS(app))) >= 2

\* The first draw of ensure_urgency_rounds: the rounds its probabilistic
\* selection picked, read from the draws of the urgency stream.
UrgencyFirstDraw ==
    {r \in 2..NUM_ROUNDS(app) : Drawn(urgency_seed)[r - 1] < LOTTERY_JUMP_PROB}

\* C13: the stored urgency schedule is a sorted list of distinct rounds, all
\* within 2..NUM_ROUNDS, with at least 2 members.
UrgencyScheduleShape ==
    "urgent_rounds_b" \in DOMAIN session_vars =>
       LET s == session_vars["urgent_rounds_b"]
       IN  /\ \A i, j \in 1..Len(s) : i < j => s[i] < s[j]
           /\ \A i \in 1..Len(s) : s[i] >= 2 /\ s[i] <= NUM_ROUNDS(app)
           /\ Len(s) >= 2

\* A schedule stored after a first draw of fewer than 2 rounds, topped up.
ScheduleToppedUp ==
    /\ "urgent_rounds_b" \in DOMAIN session_vars
    /\ Cardinality(UrgencyFirstDraw) < 2
    /\ Len(session_vars["urgent_rounds_b"]) = 2

\* The keys of the session price state.
PriceStateKeys == needed(app) \cup {"jump_periods_b"}

\* C14: once the session price state exists, no step (no later call of
\* ensure_price_paths from creating_session or from a price accessor)
\* changes a stored price sequence, returns_b or jump_periods_b, and no
\* further draw is taken from the price stream.
PriceStateIdempotent ==
    [][needed(app) \subseteq DOMAIN session_vars =>
          /\ \A k \in PriceStateKeys :
                k \in DOMAIN session_vars' /\ session_vars'[k] = session_vars[k]
          /\ Drawn(session_code)' = Drawn(session_code)]_vars

\* The price state exists, creating_session has run for a later round and a
\* participant has read prices on the Trade page of two rounds.
CalledAgain ==
    /\ needed(app) \subseteq DOMAIN session_vars
    /\ cs_round > 2
    /\ \E p \in Participants : round_number[p] > 2

\* The price state that the periods period..NUM_ROUNDS add when the draws
\* of the stream ds are consumed from position pos on, in the order safe
\* return, trap return, coin return, high-volatility return (a set: empty
\* if the stream is too short, several members only where a product lies
\* exactly between two cents).
RECURSIVE PeriodsFromStream(_, _, _, _, _, _, _)
PeriodsFromStream(ds, pos, period, prices, returns, prev_was_jump, jumps) ==
    IF period > NUM_ROUNDS(app)
    THEN {[prices |-> prices, returns_b |-> returns, used |-> pos - 1]}
    ELSE LET jump == period \in jumps
             crash_p == IF prev_was_jump THEN B_POSTJUMP_CRASH_PROB ELSE B_CRASH_PROB
             nb == IF jump THEN 0
                   ELSE IF pos + 1 <= Len(ds) /\ ds[pos + 1] < crash_p THEN 1 ELSE 2
             posc == pos + 1 + nb
             last == IF "C" \in Assets(app) THEN posc + 1 ELSE posc - 1
         IN  IF last > Len(ds) THEN {}
             ELSE LET r_a == gauss(SAFE_MU, SAFE_SIGMA, ds[pos])
                      r_b == IF jump THEN LOTTERY_JUMP_RETURN
                             ELSE b_return(prev_was_jump, ds[pos + 1],
                                           IF nb = 2 THEN ds[pos + 2] ELSE 0,
                                           Last(prices["B"]))
                      nexts == [x \in Assets(app) |->
                                  CASE x = "A" -> next_price(Last(prices["A"]), r_a)
                                    [] x = "B" -> next_price_floored(Last(prices["B"]), r_b)
                                    [] x = "C" -> next_price(Last(prices["C"]), c_return(ds[posc]))
                                    [] x = "D" -> next_price_floored(Last(prices["D"]),
                                                                     d_return(ds[posc + 1]))]
                      choices == {f \in [Assets(app) -> UNION {nexts[x] : x \in Assets(app)}] :
                                     \A x \in Assets(app) : f[x] \in nexts[x]}
                  IN  UNION {PeriodsFromStream(ds, last + 1, period + 1,
                                               [x \in Assets(app) |-> Append(prices[x], nxt[x])],
                                               Append(returns, r_b), jump, jumps) :
                             nxt \in choices}

\* The price state a generator produces from the stream ds: the first
\* NUM_ROUNDS draws select the jump periods, the sample tops them up.
PathsFromStream(ds) ==
    LET N == NUM_ROUNDS(app)
    IN  IF Len(ds) < N THEN {}
        ELSE LET pre == {t \in 1..N : ds[t] < LOTTERY_JUMP_PROB}
                 short == Cardinality(pre) < MIN_B_JUMPS
             IN  IF short /\ Len(ds) < N + 1 THEN {}
                 ELSE LET jumps == pre \cup (IF short THEN ds[N + 1] ELSE {})
                      IN  {[prices |-> r.prices, returns_b |-> r.returns_b,
                            jump_periods_b |-> sorted(jumps), used |-> r.used] :
                           r \in PeriodsFromStream(ds, IF short THEN N + 2 ELSE N + 1, 1,
                                                   [x \in Assets(app) |-> <<START_PRICE>>],
                                                   <<>>, FALSE, jumps)}

HasUiOrder(p) == "ui_order" \in DOMAIN participant_vars[p]

\* In multi_asset_trading every stored ui_order lists each of the codes A,
\* B, C, D in exactly one of its four display slots, every participant has
\* one from the round-1 call of creating_session on, and the stream of the
\* participant has handed out at most one shuffle.
UiOrderIsPermutation ==
    app = "multi_asset_trading" =>
       \A p \in Participants :
          /\ cs_round > 1 => HasUiOrder(p)
          /\ Len(Drawn(ui_seed(p))) <= 1
          /\ HasUiOrder(p) =>
                /\ Len(participant_vars[p]["ui_order"]) = 4
                /\ \A x \in {"A", "B", "C", "D"} :
                      Cardinality({i \in 1..4 : participant_vars[p]["ui_order"][i] = x}) = 1

\* A step keeps the stored display order of every participant and draws no
\* further shuffle for a participant who has one.
UiOrderKept ==
    app = "multi_asset_trading" =>
       \A p \in Participants :
          HasUiOrder(p) =>
             /\ "ui_order" \in DOMAIN participant_vars'[p]
             /\ participant_vars'[p]["ui_order"] = participant_vars[p]["ui_order"]
             /\ Drawn(ui_seed(p))' = Drawn(ui_seed(p))

\* C17: for every participant ui_order is a permutation of the codes A, B,
\* C, D (each code in exactly one display slot), it is computed at most
\* once, and once stored it is the same list after every step: a page
\* render, a trade of this or of another participant, a later round.
UiOrderStable == []UiOrderIsPermutation /\ [][UiOrderKept]_vars

\* Two participants with different display orders have both traded: each
\* holds units and is past round 2, the order still the one drawn.
OrdersKeptAcrossTrades ==
    /\ app = "multi_asset_trading"
    /\ num_participants > 1
    /\ \A p \in Participants :
          /\ HasUiOrder(p)
          /\ \E q \in Participants :
                HasUiOrder(q) /\ participant_vars[q]["ui_order"] # participant_vars[p]["ui_order"]
          /\ round_number[p] > 2
          /\ Drawn(ui_seed(p)) = <<participant_vars[p]["ui_order"]>>
          /\ \E x \in Assets(app) : participant_vars[p][QtyKey(x)] > 0

\* The periods the first NUM_ROUNDS draws of the price stream selected.
JumpsFirstDraw ==
    {t \in 1..NUM_ROUNDS(app) :
        t <= Len(Drawn(session_code)) /\ Drawn(session_code)[t] < LOTTERY_JUMP_PROB}

\* C18: a stored jump_periods_b is strictly ascending (sorted, distinct),
\* has at least MIN_B_JUMPS members, all within 1..NUM_ROUNDS, whatever the
\* pre-selection drew; a stored returns_b has the return of period t equal
\* to the jump return exactly when t is in jump_periods_b, and every other
\* return is the crash return or lies within the band.
JumpPeriodsAndReturns ==
    /\ "jump_periods_b" \in DOMAIN session_vars =>
          LET jp == session_vars["jump_periods_b"]
          IN  /\ Len(jp) >= MIN_B_JUMPS
              /\ \A i \in 1..Len(jp) : jp[i] \in 1..NUM_ROUNDS(app)
              /\ \A i \in 1..(Len(jp) - 1) : jp[i] < jp[i + 1]
    /\ "returns_b" \in DOMAIN session_vars =>
          LET jp == session_vars["jump_periods_b"]
              rb == session_vars["returns_b"]
          IN  /\ Len(rb) = NUM_ROUNDS(app)
              /\ \A t \in 1..NUM_ROUNDS(app) :
                    /\ rb[t] = LOTTERY_JUMP_RETURN <=> \E i \in 1..Len(jp) : jp[i] = t
                    /\ rb[t] # LOTTERY_JUMP_RETURN =>
                          \/ rb[t] = B_CRASH_RETURN
                          \/ (B_RETURN_MIN <= rb[t] /\ rb[t] <= B_RETURN_MAX)

\* The pre-selection drew one period only and the sample added another; the
\* stored returns hold a jump, a crash and a return held at the upper end
\* of the band.
JumpsToppedUp ==
    /\ needed(app) \subseteq DOMAIN session_vars
    /\ Cardinality(JumpsFirstDraw) = 1
    /\ Len(session_vars["jump_periods_b"]) = MIN_B_JUMPS
    /\ \E t \in 1..NUM_ROUNDS(app) : session_vars["returns_b"][t] = B_CRASH_RETURN
    /\ \E t \in 1..NUM_ROUNDS(app) : session_vars["returns_b"][t] = B_RETURN_MAX

\* C19: every stored price sequence has NUM_ROUNDS + 1 entries and starts
\* with the start price, returns_b has NUM_ROUNDS entries; in every round t
\* of 1..NUM_ROUNDS the accessors read inside the sequence, the current
\* price being entry t - 1 and the next price entry t of the 0-based list
\* (the terminal round included), so the next price of round t is the
\* current price of round t + 1.
PriceIndexing ==
    needed(app) \subseteq DOMAIN session_vars =>
       /\ Len(session_vars["returns_b"]) = NUM_ROUNDS(app)
       /\ \A x \in Assets(app) :
             /\ Len(session_vars[PriceKey(x)]) = NUM_ROUNDS(app) + 1
             /\ session_vars[PriceKey(x)][1] = START_PRICE
             /\ \A t \in Rounds :
                   /\ {t, t + 1} \subseteq DOMAIN session_vars[PriceKey(x)]
                   /\ price_now(x, t) = PriceOfRound(x, t)
                   /\ price_next(x, t) = PriceOfRound(x, t + 1)
                   /\ t < NUM_ROUNDS(app) => price_next(x, t) = price_now(x, t + 1)

\* A participant has traded the terminal round holding units: the row is
\* valued at the last entry of the price sequences, which differs from the
\* entry before it.
TerminalRoundValued ==
    \E p \in Participants :
       LET N == NUM_ROUNDS(app)
       IN  /\ round_number[p] = N + 1
           /\ player[p][N].qty # Zero(app)
           /\ player[p][N].wealth_next
                 = player[p][N].cash + Value(app, player[p][N].qty, PricesOfRound(N + 1))
           /\ player[p][N].wealth_next # player[p][N].wealth_now

\* The keys of the carry state of a participant.
CarryKeys == {"cash"} \cup {QtyKey(x) : x \in Assets(app)}

\* The step is the creating_session call of round r.
CreatesRound(r) == cs_round = r /\ cs_round' = r + 1

\* What the creating_session call of round 1 does for participant p.
RoundOneOpened(p) ==
    IF "cash" \notin DOMAIN participant_vars[p]
    THEN /\ participant_vars'[p]["cash"] = INITIAL_CASH
         /\ \A x \in Assets(app) : participant_vars'[p][QtyKey(x)] = 0
         /\ player'[p][1].cash = INITIAL_CASH
         /\ player'[p][1].qty = Zero(app)
    ELSE /\ \A k \in CarryKeys : participant_vars'[p][k] = participant_vars[p][k]
         /\ player'[p][1].cash = participant_vars[p]["cash"]
         /\ player'[p][1].qty = [x \in Assets(app) |-> participant_vars[p][QtyKey(x)]]

\* The step changes the cash or the holdings of the row of round r.
Reopens(p, r) ==
    \/ player'[p][r].cash # player[p][r].cash
    \/ player'[p][r].qty # player[p][r].qty

BadPriceNow(p) ==
    /\ PathsPresent
    /\ round_number[p] <= NUM_ROUNDS(app)
    /\ \E x \in Assets(app) : session_vars[PriceKey(x)][round_number[p]] <= 0

GeneratesPeriod ==
    /\ frame.pc = "loop"
    /\ frame'.pc = "loop"
    /\ frame'.period = frame.period + 1

\* The draws the step takes from the price stream.
NewDraws ==
    SubSeq(Drawn(session_code)', Len(Drawn(session_code)) + 1, Len(Drawn(session_code)'))

\* The draws of a period that are not those of asset B: the Gaussian draw
\* of A and, with four assets, the draws of C and D.
OtherDraws == IF "C" \in Assets(app) THEN 3 ELSE 1

\* C22: in the generation of period t, the flag prev_was_jump says whether
\* period t - 1 was a jump period; a jump period draws no crash flag, has
\* the jump return and sets the flag; a non-jump period draws the crash flag
\* against the elevated probability exactly when period t - 1 was a jump
\* period and against the base probability otherwise, crashes exactly when
\* the draw is below it, and clears the flag.
PostJumpCrashRegime ==
    [][GeneratesPeriod =>
          LET t == frame.period
              jp == Range(session_vars["jump_periods_b"])
              r_b == Last(frame'.returns_b)
              p == IF (t - 1) \in jp THEN B_POSTJUMP_CRASH_PROB ELSE B_CRASH_PROB
          IN  /\ frame.prev_was_jump <=> (t - 1) \in jp
              /\ IF t \in jp
                 THEN /\ r_b = LOTTERY_JUMP_RETURN
                      /\ frame'.prev_was_jump
                      /\ Len(NewDraws) = OtherDraws
                 ELSE /\ ~frame'.prev_was_jump
                      /\ Len(NewDraws) > OtherDraws
                      /\ r_b = B_CRASH_RETURN <=> NewDraws[2] < p
                      /\ Len(NewDraws) = OtherDraws + (IF NewDraws[2] < p THEN 1 ELSE 2)]_vars

\* A stored price state whose crash draws were all TypicalU: two jump
\* periods in a row, a crash in the period after them (the draw is below
\* the elevated probability only) and no crash in a period whose previous
\* period was no jump (the draw is above the base probability).
CrashAfterJumpOnly ==
    /\ needed(app) \subseteq DOMAIN session_vars
    /\ Cardinality(JumpsFirstDraw) >= MIN_B_JUMPS
    /\ \A i \in (NUM_ROUNDS(app) + 1)..Len(Drawn(session_code)) :
          Drawn(session_code)[i] # LowU
    /\ LET jp == Range(session_vars["jump_periods_b"])
           rb == session_vars["returns_b"]
       IN  /\ \E t \in 1..(NUM_ROUNDS(app) - 2) :
                 {t, t + 1} \subseteq jp /\ (t + 2) \notin jp /\ rb[t + 2] = B_CRASH_RETURN
           /\ \E t \in 2..NUM_ROUNDS(app) :
                 t \notin jp /\ (t - 1) \notin jp /\ rb[t] # B_CRASH_RETURN

\* Row b is row a but for the cash and the holdings.
SameButCashAndQty(a, b) == [b EXCEPT !.cash = a.cash, !.qty = a.qty] = a

\* C23: the step that executes round r of participant p changes, of all
\* the state, only the row of round r of p, the cash and holdings of the
\* row of round r + 1 of p, and the cash and qty_* of p's carry state: the
\* session state (price sequences, returns_b, jump_periods_b, the urgency
\* schedule) is unchanged, ui_order and every other participant variable
\* are unchanged, the rows of the rounds before r and after r + 1 are
\* unchanged, and so are the rows and carry state of every other participant.
ExecutionFrame ==
    [][\A p \in Participants :
          Trades(p) =>
             LET r == round_number[p]
             IN  /\ session_vars' = session_vars
                 /\ DOMAIN participant_vars'[p] = DOMAIN participant_vars[p]
                 /\ \A k \in DOMAIN participant_vars[p] \ CarryKeys :
                       participant_vars'[p][k] = participant_vars[p][k]
                 /\ \A q \in Rounds :
                       /\ (q < r \/ q > r + 1) => player'[p][q] = player[p][q]
                       /\ q = r + 1 => SameButCashAndQty(player[p][q], player'[p][q])
                 /\ \A o \in Participants \ {p} :
                       /\ player'[o] = player[o]
                       /\ participant_vars'[o] = participant_vars[o]
                       /\ round_number'[o] = round_number[o]]_vars

\* In a session of two participants, one has executed a second round with
\* a sell and a buy while the other has not traded yet; the display orders
\* are stored and, in mini_pilot_trading, the urgency schedule.
ExecutedBesideIdlePlayer ==
    /\ num_participants > 1
    /\ \E p \in Participants : \E o \in Participants \ {p} :
          /\ round_number[p] = 3
          /\ round_number[o] = 1
          /\ player[p][1].exec_buy # Zero(app)
          /\ player[p][2].exec_sell # Zero(app)
          /\ player[p][2].exec_buy # Zero(app)
          /\ IF app = "multi_asset_trading"
             THEN HasUiOrder(p) /\ HasUiOrder(o)
             ELSE "urgent_rounds_b" \in DOMAIN session_vars

\* C24: the step that executes the terminal round NUM_ROUNDS leaves the
\* participant with the rows of rounds 1..NUM_ROUNDS and no other, changes
\* no row but that of the terminal round, stores the row's cash and
\* holdings as the carry state, and values wealth_next at the last entry of
\* the price sequences, entry NUM_ROUNDS of the 0-based lists.
TerminalRound ==
    [][\A p \in Participants :
          (Trades(p) /\ round_number[p] = NUM_ROUNDS(app)) =>
             LET N == NUM_ROUNDS(app)
                 row == player'[p][N]
             IN  /\ DOMAIN player'[p] = 1..N
                 /\ \A q \in 1..(N - 1) : player'[p][q] = player[p][q]
                 /\ participant_vars'[p]["cash"] = row.cash
                 /\ \A x \in Assets(app) : participant_vars'[p][QtyKey(x)] = row.qty[x]
                 /\ row.wealth_next
                       = row.cash + Value(app, row.qty, [x \in Assets(app) |->
                                             session_vars[PriceKey(x)][N + 1]])]_vars

\* A participant has executed the terminal round with a sell: the carry
\* state is that of the terminal row and differs from the state the round
\* opened with.
TerminalRoundExecuted ==
    \E p \in Participants :
       LET N == NUM_ROUNDS(app)
       IN  /\ round_number[p] = N + 1
           /\ DOMAIN player[p] = 1..N
           /\ player[p][N].exec_sell # Zero(app)
           /\ CarryIs(p, player[p][N])
           /\ player[p][N].cash # player[p][N - 1].cash

\* The row of round r of participant p when p plays the session alone and
\* submits the orders of the row ordered: round 1 opens with the endowment,
\* every later round with the closing state of p's round before, and the
\* engine runs on the session's prices of the round.
AloneRow(p, r, ordered) ==
    LET cash == IF r = 1 THEN INITIAL_CASH ELSE player[p][r - 1].cash
        qty == IF r = 1 THEN Zero(app) ELSE player[p][r - 1].qty
        opened == [NewPlayer(app) EXCEPT !.cash = cash, !.qty = qty,
                                         !.buy = ordered.buy,
                                         !.sell = ordered.sell,
                                         !.timed_out = ordered.timed_out]
    IN  IF app = "multi_asset_trading"
        THEN execute_trades(opened, PricesOfRound(r), PricesOfRound(r + 1))
        ELSE mini_trade(opened, PricesOfRound(r), PricesOfRound(r + 1))

\* The step that executes a round of participant p leaves the row of the
\* run alone (by induction over the rounds, from the endowment on) and
\* makes its cash and holdings the carry state of p.
AsAlone ==
    \A p \in Participants :
       Trades(p) =>
          LET r == round_number[p]
          IN  /\ player'[p][r] = AloneRow(p, r, player'[p][r])
              /\ participant_vars'[p]["cash"] = player'[p][r].cash
              /\ \A x \in Assets(app) :
                    participant_vars'[p][QtyKey(x)] = player'[p][r].qty[x]

\* The step of one participant writes nothing of another participant.
NoCrossWrites ==
    \A p \in Participants :
       Trades(p) =>
          \A o \in Participants \ {p} :
             /\ player'[o] = player[o]
             /\ participant_vars'[o] = participant_vars[o]

\* C25: with two participants whose round executions interleave in any
\* order, every executed round of each participant has the executed
\* quantities, cash, holdings and wealth of that participant playing alone
\* with the same orders, and no execution step of one participant writes a
\* field of another participant's rows or carry state.
PlayersIndependent == [][AsAlone /\ NoCrossWrites]_vars

\* Two participants who submitted different orders have interleaved their
\* rounds: one stands behind the other and their cash differs.
InterleavedExecutions ==
    /\ num_participants > 1
    /\ \E p \in Participants : \E o \in Participants \ {p} :
          /\ round_number[p] > 2
          /\ round_number[o] = round_number[p] - 1
          /\ player[p][1].buy # player[o][1].buy
          /\ player[p][1].cash # player[o][1].cash
          /\ player[p][2].exec_buy # Zero(app)

\* C26: the step that executes a round trades at the current prices without
\* gain or loss: the cash after is the opening cash plus the executed sells
\* minus the executed buys at the current prices, every holding after is
\* the opening holding minus the executed sell plus the executed buy, and
\* wealth_now recorded after the trades is the opening cash plus the
\* opening holdings at the current prices, whatever is requested.
WealthNeutralTrade ==
    [][\A p \in Participants :
          Trades(p) =>
             LET now == PricesOfRound(round_number[p])
             IN  /\ After(p).cash = Before(p).cash + Value(app, After(p).exec_sell, now)
                                                   - Value(app, After(p).exec_buy, now)
                 /\ \A x \in Assets(app) :
                       After(p).qty[x] = Before(p).qty[x] - After(p).exec_sell[x]
                                                          + After(p).exec_buy[x]
                 /\ After(p).wealth_now
                       = Before(p).cash + Value(app, Before(p).qty, now)]_vars

\* A round after the first executed with a sell and a buy that changed the
\* cash and the holdings, its wealth_now still the opening portfolio at the
\* round's prices.
TradedBothWays ==
    \E p \in Participants : \E r \in Rounds :
        /\ r > 1
        /\ Executed(p, r)
        /\ player[p][r].exec_sell # Zero(app)
        /\ player[p][r].exec_buy # Zero(app)
        /\ player[p][r].cash # player[p][r - 1].cash
        /\ player[p][r].qty # player[p][r - 1].qty
        /\ player[p][r].wealth_now
              = player[p][r - 1].cash + Value(app, player[p][r - 1].qty, PricesOfRound(r))

\* C27: wealth continuity: for every round r < NUM_ROUNDS, once round r + 1
\* is executed its wealth_now equals the wealth_next recorded in round r,
\* whatever was ordered in round r + 1.
WealthContinuity ==
    \A p \in Participants : \A r \in Rounds :
        (r < NUM_ROUNDS(app) /\ Executed(p, r + 1)) =>
           player[p][r + 1].wealth_now = player[p][r].wealth_next

\* Two rounds executed in a row, the second with an executed buy and sell,
\* the wealth carried over different from the endowment.
WealthCarriedOver ==
    \E p \in Participants : \E r \in Rounds :
        /\ r < NUM_ROUNDS(app)
        /\ Executed(p, r + 1)
        /\ player[p][r + 1].exec_buy # Zero(app)
        /\ player[p][r + 1].exec_sell # Zero(app)
        /\ player[p][r].wealth_next # INITIAL_CASH
        /\ player[p][r].wealth_next # player[p][r].wealth_now
        /\ player[p][r + 1].wealth_now = player[p][r].wealth_next

\* ------------------------------------------------------------------
\* Several callers of ensure_price_paths at once
\* ------------------------------------------------------------------
\* The keys in the order in which ensure_price_paths writes them and
\* Player._paths reads them.
WriteOrder ==
    IF app = "multi_asset_trading"
    THEN <<"prices_a", "prices_b", "prices_c", "prices_d", "returns_b">>
    ELSE <<"prices_a", "prices_b", "returns_b">>

\* A caller outside Player._paths: res is the price state it has generated
\* in its local lists (none yet), k the key it writes or reads next, seen
\* the values it has obtained for each key so far, key_error whether a
\* read found a key missing.
Idle(seen, key_error) ==
    [pc |-> "idle", res |-> NoVars, k |-> 0, seen |-> seen, key_error |-> key_error]

\* What random.Random(str(session.code)) hands out, as far as a generation
\* reads it: the draws of the pre-selection, the sample, the draws of the
\* periods.
RaceStreams ==
    {[i \in 1..NUM_ROUNDS(app) |-> TypicalU] \o <<extra>>
        \o [i \in 1..(5 * NUM_ROUNDS(app)) |-> TypicalU] :
     extra \in sample(1..NUM_ROUNDS(app), MIN_B_JUMPS)}

\* The lists a generation builds from the stream, under the keys they are
\* stored with; where a product lies between two cents the double
\* arithmetic takes one of them, the same one in every generation.
Generated(stream) ==
    LET r == CHOOSE x \in PathsFromStream(stream) : TRUE
    IN  [k \in needed(app) \cup {"jump_periods_b"} |->
            IF k = "returns_b" THEN r.returns_b
            ELSE IF k = "jump_periods_b" THEN r.jump_periods_b
            ELSE r.prices[CHOOSE x \in Assets(app) : k = PriceKey(x)]]

\* A session in which the participants reach the price accessors while no
\* price state is stored.
InitRace ==
    /\ app \in Apps
    /\ num_participants = 2
    /\ session_vars = NoVars
    /\ participant_vars = [p \in Participants |-> NoVars]
    /\ player = [p \in Participants |-> [r \in 1..NUM_ROUNDS(app) |-> NewPlayer(app)]]
    /\ cs_round = 1
    /\ frame = [p \in Participants |-> Idle([k \in needed(app) |-> {}], FALSE)]
    /\ round_number = [p \in Participants |-> 1]
    /\ drawn = NoVars

\* Player._paths of participant p calls ensure_price_paths: the presence
\* check, and when it fails the generation from a new
\* random.Random(str(session.code)), which hands out what every stream of
\* this seed hands out.
race_enter(p) ==
    /\ frame[p].pc = "idle"
    /\ IF PathsPresent
       THEN /\ frame' = [frame EXCEPT ![p].pc = "read", ![p].k = 1]
            /\ UNCHANGED drawn
       ELSE \E stream \in (IF Drawn(paths_seed) = <<>> THEN RaceStreams
                           ELSE {Drawn(paths_seed)}) :
               /\ frame' = [frame EXCEPT ![p].pc = "jumps", ![p].res = Generated(stream)]
               /\ drawn' = Put(drawn, paths_seed, stream)
    /\ UNCHANGED <<app, num_participants, session_vars, participant_vars, player,
                   cs_round, round_number>>

\* session.vars["jump_periods_b"] = jump_periods
race_jumps(p) ==
    /\ frame[p].pc = "jumps"
    /\ session_vars' = Put(session_vars, "jump_periods_b", frame[p].res["jump_periods_b"])
    /\ frame' = [frame EXCEPT ![p].pc = "store", ![p].k = 1]
    /\ UNCHANGED <<app, num_participants, participant_vars, player, cs_round,
                   round_number, drawn>>

\* session.vars["prices_a"] = prices_a; ...; session.vars["returns_b"] =
\* returns_b: one key per step
race_store(p) ==
    /\ frame[p].pc = "store"
    /\ LET key == WriteOrder[frame[p].k]
       IN  session_vars' = Put(session_vars, key, frame[p].res[key])
    /\ frame' = IF frame[p].k = Len(WriteOrder)
                THEN [frame EXCEPT ![p].pc = "read", ![p].k = 1]
                ELSE [frame EXCEPT ![p].k = @ + 1]
    /\ UNCHANGED <<app, num_participants, participant_vars, player, cs_round,
                   round_number, drawn>>

\* return (self.session.vars["prices_a"], ..., self.session.vars["returns_b"]):
\* one key per step; after the last the accessor returns
race_read(p) ==
    /\ frame[p].pc = "read"
    /\ LET key == WriteOrder[frame[p].k]
           found == key \in DOMAIN session_vars
           seen == IF found
                   THEN [frame[p].seen EXCEPT ![key] = @ \cup {session_vars[key]}]
                   ELSE frame[p].seen
           key_error == frame[p].key_error \/ ~found
       IN  frame' = IF frame[p].k = Len(WriteOrder) \/ ~found
                    THEN [frame EXCEPT ![p] = [Idle(seen, key_error) EXCEPT
                                                   !.res = frame[p].res]]
                    ELSE [frame EXCEPT ![p].k = @ + 1, ![p].seen = seen]
    /\ UNCHANGED <<app, num_participants, session_vars, participant_vars, player,
                   cs_round, round_number, drawn>>

\* The calls of the price accessors by the participants, interleaved step
\* by step.
NextRace ==
    \E p \in Participants :
        \/ race_enter(p)
        \/ race_jumps(p)
        \/ race_store(p)
        \/ race_read(p)

SpecRace == InitRace /\ [][NextRace]_vars

\* C28: however the checks, generations and key-by-key writes of several
\* callers interleave, no accessor finds a key missing, and all the lists
\* obtained for a key, by any participant and at any time, are one and the
\* same list; so the price of a given asset and round is the same value
\* for all participants and at all times.
ReadersAgree ==
    \A p \in Participants : \A q \in Participants :
       /\ ~frame[p].key_error
       /\ \A k \in needed(app) : Cardinality(frame[p].seen[k] \cup frame[q].seen[k]) <= 1

\* Both participants found the price state missing, both generated and
\* wrote it, and both have read every key since.
BothGenerated ==
    \A p \in Participants :
       /\ frame[p].pc = "idle"
       /\ frame[p].res # NoVars
       /\ \A k \in needed(app) : frame[p].seen[k] # {}

=============================================================================
